---- MODULE Spec2Model ----
(***************************************************************************)
(* Model of deploy.py, the CloudFormation deployment helper for the        *)
(* DynamoDB GSI export stack.  One process invocation runs one command     *)
(* (deploy, delete, outputs, status) against the remote services, which    *)
(* it finds in any state earlier invocations or other actors left them in. *)
(* Every remote call is one step of the command that issues it; the answer *)
(* of the remote service is chosen with \E among the answers the service   *)
(* can give in its current state.                                          *)
(***************************************************************************)
EXTENDS Integers, Sequences, FiniteSets, TLC

\* ----------------------------------------------------------- configuration
STACK_NAME == "gsi-export-test"

TEMPLATE_FILE == "dynamo-gsi-scheduled-export.yaml"

\* The insertion order of the PARAMETERS dict.
PARAMETER_KEYS ==
    << "DynamoTableName", "GsiName", "GsiPartitionKeyAttribute",
       "GsiPartitionKeyValue", "GsiSortKeyAttribute", "DateFormat",
       "S3DataPrefix", "CronExpression", "DateRangeMode", "CreateTable",
       "TablePKName", "TablePKType", "BillingMode", "ExtraDateColumn" >>

PARAMETERS ==
    [ DynamoTableName          |-> "ConnectViewDataTest",
      GsiName                  |-> "Channel-InitiationTimestamp-index",
      GsiPartitionKeyAttribute |-> "Channel",
      GsiPartitionKeyValue     |-> "CHAT",
      GsiSortKeyAttribute      |-> "InitiationTimestamp",
      DateFormat               |-> "ISO",
      S3DataPrefix             |-> "exports",
      CronExpression           |-> "rate(1 day)",
      DateRangeMode            |-> "PREVIOUS_DAY",
      CreateTable              |-> "true",
      TablePKName              |-> "ContactId",
      TablePKType              |-> "S",
      BillingMode              |-> "PAY_PER_REQUEST",
      ExtraDateColumn          |-> "report_date" ]

\* S3_BUCKET_NAME is "" in the source and is meant to be edited: the unset
\* value and one override.
S3BucketNameSettings == { "", "my-export-bucket" }

\* WaiterConfig MaxAttempts.
MaxAttempts == 120

COMMANDS == { "deploy", "delete", "outputs", "status" }

\* argv[1] of an invocation: a command, another word, or no argument.
Argv == COMMANDS \cup { "bogus", "<missing>" }

\* Account ids the identity service may report.
AccountIds == { "123456789012", "210987654321" }

\* ----------------------------------------------------------- remote model
\* Status of the remote stack.  ABSENT: describe by name answers
\* "does not exist".  Every other value is a StackStatus describe returns.
InProgress == { "CREATE_IN_PROGRESS", "UPDATE_IN_PROGRESS", "DELETE_IN_PROGRESS" }

Stable ==
    { "CREATE_COMPLETE", "UPDATE_COMPLETE", "ROLLBACK_COMPLETE",
      "UPDATE_ROLLBACK_COMPLETE", "DELETE_FAILED" }

StackStatuses == { "ABSENT", "DELETE_COMPLETE" } \cup InProgress \cup Stable

\* What the provisioning service may have made of a status by the time the
\* next call reaches it: an operation in progress continues, succeeds or
\* fails; any other status stays.
Progress(s) ==
    CASE s = "CREATE_IN_PROGRESS" ->
            { "CREATE_IN_PROGRESS", "CREATE_COMPLETE", "ROLLBACK_COMPLETE" }
      [] s = "UPDATE_IN_PROGRESS" ->
            { "UPDATE_IN_PROGRESS", "UPDATE_COMPLETE", "UPDATE_ROLLBACK_COMPLETE" }
      [] s = "DELETE_IN_PROGRESS" ->
            { "DELETE_IN_PROGRESS", "DELETE_COMPLETE", "ABSENT", "DELETE_FAILED" }
      [] OTHER -> { s }

\* Output keys of the template.
BucketKeys == << "ExportDataBucket", "AthenaResultsBucket" >>

OutputKeys ==
    { "ExportDataBucket", "AthenaResultsBucket", "AthenaWorkgroup",
      "ReportDashboardURL" }

\* The output sets a stack may have.
OutputSets ==
    { {}, OutputKeys, { "AthenaResultsBucket", "AthenaWorkgroup" } }

\* Outputs a stack in status s shows when its resources are (to be) built as o.
OutputsIn(s, o) ==
    IF s \in { "ABSENT", "DELETE_COMPLETE", "CREATE_IN_PROGRESS", "ROLLBACK_COMPLETE" }
    THEN {} ELSE o

\* str(e) of the ClientErrors of the model, as sequences of words.
MsgNotExist ==
    << "Stack", "with", "id", STACK_NAME, "does", "not", "exist" >>

MsgDenied == << "User", "is", "not", "authorized", "to", "perform", "this", "action" >>

MsgNoUpdates == << "No", "updates", "are", "to", "be", "performed", "." >>

MsgBusy == << "Stack", "is", "in", "a", "state", "that", "can", "not", "be", "updated" >>

MsgAlreadyExists == << "Stack", STACK_NAME, "already", "exists" >>

\* needle in haystack, for word sequences (Python's  "..." in str(e)).
Contains(hay, needle) ==
    \E i \in 0 .. (Len(hay) - Len(needle)) :
        \A j \in 1 .. Len(needle) : hay[i + j] = needle[j]

DoesNotExistIn(e) == Contains(e, << "does", "not", "exist" >>)

\* An except clause that recognises no "No updates" error.
NoUpdatesNever(e) == FALSE

NoUpdatesIn(e) == Contains(e, << "No", "updates", "are", "to", "be", "performed" >>)

\* An answer of describe_stacks: the stack, or a ClientError whose text is msg.
Described(s, o) ==
    [ ok |-> TRUE, msg |-> << >>, status |-> s, outputs |-> OutputsIn(s, o) ]

Raised(m) == [ ok |-> FALSE, msg |-> m, status |-> "", outputs |-> {} ]

\* The answers describe_stacks(StackName=STACK_NAME) can give for a stack in
\* status s: the stack (an absent one raises "does not exist"), or another
\* ClientError.
DescribeResponses(s, o) ==
    { IF s = "ABSENT" THEN Raised(MsgNotExist) ELSE Described(s, o) }
        \cup { Raised(MsgDenied) }

\* The answers of the other remote calls: << >> when the call is accepted,
\* else str(e) of the ClientError it raises.
Accepted == << >>

\* update_stack on a stack in status s.
UpdateResponses(s) ==
    CASE s \in { "CREATE_COMPLETE", "UPDATE_COMPLETE", "UPDATE_ROLLBACK_COMPLETE" } ->
            { Accepted, MsgNoUpdates, MsgDenied }
      [] s \in { "ABSENT", "DELETE_COMPLETE" } -> { MsgNotExist }
      [] OTHER -> { MsgBusy }

\* create_stack on a stack in status s.
CreateResponses(s) ==
    IF s \in { "ABSENT", "DELETE_COMPLETE" }
    THEN { Accepted, MsgDenied }
    ELSE { MsgAlreadyExists }

\* delete_stack on a stack in status s.
DeleteResponses(s) ==
    IF s = "UPDATE_IN_PROGRESS"
    THEN { Accepted, MsgBusy }
    ELSE { Accepted, MsgDenied }

\* Status after an accepted delete_stack.
AfterDelete(s) ==
    IF s \in { "ABSENT", "DELETE_COMPLETE" } THEN s ELSE "DELETE_IN_PROGRESS"

\* The answers of a call that either succeeds or raises a ClientError.
Answers == { Accepted, MsgDenied }

MsgNotFound == << "Not", "Found" >>

MsgForbidden == << "Forbidden" >>

\* head_bucket on the staging bucket: it returns when the bucket exists and
\* the caller may read it, raises 404 when there is no such bucket, and raises
\* 403 when the caller may not read the bucket, whether it exists or not.
HeadBucketResponses(bucketExists) ==
    (IF bucketExists THEN { Accepted } ELSE { MsgNotFound }) \cup { MsgForbidden }

\* The acceptors of the SDK's waiters: what one describe answer r means to
\* the waiter named w.
WaiterVerdict(w, r) ==
    CASE w = "stack_create_complete" ->
            IF ~r.ok THEN "failure"
            ELSE IF r.status = "CREATE_COMPLETE" THEN "success"
            ELSE IF r.status \in { "ROLLBACK_COMPLETE", "DELETE_COMPLETE", "DELETE_FAILED" }
                 THEN "failure" ELSE "retry"
      [] w = "stack_update_complete" ->
            IF ~r.ok THEN "failure"
            ELSE IF r.status = "UPDATE_COMPLETE" THEN "success"
            ELSE IF r.status \in { "UPDATE_ROLLBACK_COMPLETE" }
                 THEN "failure" ELSE "retry"
      [] OTHER ->
            IF ~r.ok THEN (IF DoesNotExistIn(r.msg) THEN "success" ELSE "failure")
            ELSE IF r.status = "DELETE_COMPLETE" THEN "success"
            ELSE IF r.status \in { "DELETE_FAILED" }
                 THEN "failure" ELSE "retry"

\* Value of the output named key.
OutputValue(key) == key \o "-of-" \o STACK_NAME

\* The order in which describe_stacks lists the outputs.
OutputOrder ==
    << "AthenaResultsBucket", "AthenaWorkgroup", "ExportDataBucket",
       "ReportDashboardURL" >>

\* Lines the user may type at the confirmation prompt, as character sequences.
ConfirmInputs ==
    { << "y", "e", "s" >>, << " ", "Y", "E", "s", "\t" >>,
      << "n", "o" >>, << >>, << "y" >>, << "y", "e", " ", "s" >>,
      << "y", "e", "s", "!" >>, << "N", "O" >> }

UpperCase ==
    << "A", "B", "C", "D", "E", "F", "G", "H", "I", "J", "K", "L", "M",
       "N", "O", "P", "Q", "R", "S", "T", "U", "V", "W", "X", "Y", "Z" >>

LowerCase ==
    << "a", "b", "c", "d", "e", "f", "g", "h", "i", "j", "k", "l", "m",
       "n", "o", "p", "q", "r", "s", "t", "u", "v", "w", "x", "y", "z" >>

Whitespace == { " ", "\t", "\n", "\r" }

\* str.strip(): drop the leading and the trailing whitespace.
RECURSIVE LStrip(_)
LStrip(str) ==
    IF str # << >> /\ Head(str) \in Whitespace THEN LStrip(Tail(str)) ELSE str

RECURSIVE RStrip(_)
RStrip(str) ==
    IF str # << >> /\ str[Len(str)] \in Whitespace
    THEN RStrip(SubSeq(str, 1, Len(str) - 1)) ELSE str

Strip(str) == RStrip(LStrip(str))

\* str.lower(): every upper-case letter becomes its lower-case letter.
Lower(str) ==
    [ i \in 1 .. Len(str) |->
        IF \E k \in 1 .. Len(UpperCase) : UpperCase[k] = str[i]
        THEN LowerCase[CHOOSE k \in 1 .. Len(UpperCase) : UpperCase[k] = str[i]]
        ELSE str[i] ]

\* ------------------------------------------------------------------- state
VARIABLES
    argv,            \* argv[1] of the invocation
    pc,              \* position of the invocation
    exitCode,        \* -1 while running, else the process exit code
    uncaught,        \* the exception that ended the process, "" if none
    out,             \* lines printed
    calls,           \* remote calls issued, the waiter's polls excepted
    account,         \* the account get_account_id answered, "" before
    s3BucketName,    \* the S3_BUCKET_NAME setting cmd_deploy reads
    stackStatus,     \* remote: status of the stack
    stackOutputs,    \* remote: output keys of the stack's resources
    fullBuckets,     \* remote: output buckets that hold objects
    workgroup,       \* remote: the Athena workgroup exists
    stagingBucket,   \* remote: the staging bucket exists
    stagingArtifact, \* remote: content under <stack>/template.yaml
    staging,         \* local staging_bucket of cmd_deploy
    templateUrl,     \* local template_url of cmd_deploy
    params,          \* local params of cmd_deploy
    exists,          \* local exists of cmd_deploy: "unset", "True", "False"
    rawInput,        \* the line input() read in cmd_delete, NoInput before
    confirm,         \* local confirm of cmd_delete
    outputs,         \* local outputs of cmd_delete: [bound, keys]
    waiter,          \* waiter_name of wait_for_stack, "" before it is called
    attempts,        \* describe calls the running waiter has made, 0 outside a wait
    waitError,       \* the exception waiter.wait raised, "" if none
    success          \* local success of cmd_deploy / cmd_delete

vars ==
    << argv, pc, exitCode, uncaught, out, calls, account, s3BucketName,
       stackStatus, stackOutputs, fullBuckets, workgroup,
       stagingBucket, stagingArtifact, staging, templateUrl, params, exists,
       rawInput, confirm, outputs, waiter, attempts, waitError, success >>

remote ==
    << stackStatus, stackOutputs, fullBuckets, workgroup, stagingBucket,
       stagingArtifact >>

deployLocals == << staging, templateUrl, params, exists >>

deleteLocals == << rawInput, confirm, outputs >>

waitLocals == << waiter, attempts, waitError, success >>

locals == << deployLocals, deleteLocals, waitLocals >>

config == << account, s3BucketName >>

Unbound == [ bound |-> FALSE, keys |-> {} ]

NoInput == << "<nothing read>" >>

MaxAttemptsExceeded == "Max attempts exceeded"

TerminalFailure == "Waiter encountered a terminal failure state"

\* A printed line: the format string it comes from and the values put in it.
Line(fmt, arg) == [ fmt |-> fmt, arg |-> arg ]

\* A remote call: the operation, what it was given (for describe_stacks, the
\* function that called it), the status the stack had when the call reached
\* the service, and the answer: Accepted, or the text of the ClientError.
Call(op, arg, at, ans) == [ op |-> op, arg |-> arg, at |-> at, ans |-> ans ]

Init ==
    /\ argv = "<missing>"
    /\ pc = "start"
    /\ exitCode = -1
    /\ uncaught = ""
    /\ out = << >>
    /\ calls = << >>
    /\ account = ""
    /\ s3BucketName = ""
    /\ stackStatus \in StackStatuses
    /\ stackOutputs \in OutputSets
    /\ stackOutputs = IF stackStatus \in { "ABSENT", "DELETE_COMPLETE" }
                      THEN {} ELSE stackOutputs
    /\ fullBuckets = stackOutputs \cap { "ExportDataBucket", "AthenaResultsBucket" }
    /\ workgroup = ("AthenaWorkgroup" \in stackOutputs)
    /\ stagingBucket \in BOOLEAN
    /\ ~stagingBucket => stackStatus \in { "ABSENT", "CREATE_COMPLETE" }
    /\ stagingArtifact = IF stagingBucket THEN "earlier-upload" ELSE ""
    /\ staging = ""
    /\ templateUrl = ""
    /\ params = << >>
    /\ exists = "unset"
    /\ rawInput = NoInput
    /\ confirm = << >>
    /\ outputs = Unbound
    /\ waiter = ""
    /\ attempts = 0
    /\ waitError = ""
    /\ success = FALSE

\* The process ends: the command returned (code 0), sys.exit(code), or an
\* exception e reached the top level (traceback, code 1).
Exit(code, e) ==
    /\ pc' = "done"
    /\ exitCode' = code
    /\ uncaught' = e

Running(next) ==
    /\ pc' = next
    /\ UNCHANGED << exitCode, uncaught >>

\* ----------------------------------------------------------------- helpers
RECURSIVE OutputLines(_, _)
OutputLines(keys, present) ==
    IF keys = << >> THEN << >>
    ELSE LET key == Head(keys)
             val == OutputValue(key)
             line == IF key \in present
                     THEN << Line("  {key:30s} {val}", << key, val >>) >>
                          \o (IF key = "ReportDashboardURL"
                              THEN << Line("  >>> Dashboard URL: {val}", << val >>) >>
                              ELSE << >>)
                     ELSE << >>
         IN  line \o OutputLines(Tail(keys), present)

\* What print_outputs prints for the answer r of its describe_stacks call.
print_outputs(r) ==
    IF r.ok
    THEN IF r.outputs = {}
         THEN << Line("  No outputs found.", << >>) >>
         ELSE << Line("  Stack Outputs:", << >>) >>
              \o OutputLines(OutputOrder, r.outputs)
    ELSE << Line("  Error: {e}", r.msg) >>

\* What print_status prints for the answer r of its describe_stacks call.
print_status(r) ==
    IF r.ok
    THEN << Line("  Stack:  {stack['StackName']}", << STACK_NAME >>),
            Line("  Status: {stack['StackStatus']}", << r.status >>) >>
    ELSE IF DoesNotExistIn(r.msg)
         THEN << Line("  Stack '{STACK_NAME}' does not exist.", << STACK_NAME >>) >>
         ELSE << Line("  Error: {e}", r.msg) >>

\* get_account_id's answer id, formatted by get_staging_bucket.
get_staging_bucket(id) == "cfn-templates-" \o id

\* build_params without the override branch.
build_params_derived_only(id) ==
    [ i \in 1 .. Len(PARAMETER_KEYS) |->
        [ ParameterKey |-> PARAMETER_KEYS[i],
          ParameterValue |-> PARAMETERS[PARAMETER_KEYS[i]] ] ]
    \o << [ ParameterKey |-> "S3BucketName",
            ParameterValue |-> STACK_NAME \o "-" \o id ] >>

\* build_params with get_account_id answering id: the static parameters in
\* order, then S3BucketName.  Every value of PARAMETERS is a str already.
build_params(id) ==
    LET value == IF s3BucketName # ""
                 THEN s3BucketName
                 ELSE STACK_NAME \o "-" \o id
    IN  [ i \in 1 .. Len(PARAMETER_KEYS) |->
            [ ParameterKey |-> PARAMETER_KEYS[i],
              ParameterValue |-> PARAMETERS[PARAMETER_KEYS[i]] ] ]
        \o << [ ParameterKey |-> "S3BucketName", ParameterValue |-> value ] >>

\* stack_exists without the DELETE_COMPLETE test.
stack_exists_any_status(r) ==
    IF r.ok THEN "True"
    ELSE IF DoesNotExistIn(r.msg) THEN "False" ELSE "raise"

\* stack_exists for the answer r of its describe_stacks call: "True",
\* "False", or "raise" when the ClientError is passed on.
stack_exists(r) ==
    IF r.ok
    THEN IF r.status \notin { "DELETE_COMPLETE" } THEN "True" ELSE "False"
    ELSE IF DoesNotExistIn(r.msg) THEN "False" ELSE "raise"

\* wait_for_stack returning True from its except clause too.
wait_for_stack_always_true(e) == TRUE

\* wait_for_stack's return value: True when waiter.wait returned, False when
\* it raised e.
wait_for_stack(e) == (e = "")

\* The confirmation compared as typed.
confirmation_as_typed(line) == line

\* input("  Type 'yes' to confirm: ").strip().lower() for the typed line.
confirmation(line) == Lower(Strip(line))

\* The buckets the emptying loop visits: the allowlisted keys, in the loop's
\* order, that the outputs dict holds.
BucketsOf(keys) == SelectSeq(BucketKeys, LAMBDA k : k \in keys)

\* ------------------------------------------------------------------ main
\* if __name__ == "__main__": the process checks argv and dispatches.  The
\* S3_BUCKET_NAME setting is read by cmd_deploy alone, and is drawn for it.
Main ==
    /\ pc = "start"
    /\ \E a \in Argv :
         /\ argv' = a
         /\ s3BucketName' \in IF a = "deploy" THEN S3BucketNameSettings ELSE { "" }
         /\ IF a \in COMMANDS
            THEN /\ Running(a)
                 /\ out' = out
            ELSE /\ Exit(1, "")
                 /\ out' = Append(out, Line("Usage: python {sys.argv[0]} <...>", << >>))
    /\ UNCHANGED << account, remote, calls, locals >>

\* A cmd_outputs that stages the template before it reads.
cmd_outputs_staging ==
    /\ pc = "outputs"
    /\ \E s \in Progress(stackStatus) :
         \E r \in DescribeResponses(s, stackOutputs) :
           /\ stackStatus' = s
           /\ calls' = calls \o
                << Call("put_object", STACK_NAME \o "/template.yaml", s, Accepted),
                   Call("describe_stacks", "print_outputs", s, r.msg) >>
           /\ out' = out \o print_outputs(r)
    /\ stagingArtifact' = TEMPLATE_FILE
    /\ Exit(0, "")
    /\ UNCHANGED << argv, config, locals, stackOutputs, fullBuckets, workgroup,
                    stagingBucket >>

\* cmd_outputs: print_outputs(cfn).
cmd_outputs ==
    /\ pc = "outputs"
    /\ \E s \in Progress(stackStatus) :
         \E r \in DescribeResponses(s, stackOutputs) :
           /\ stackStatus' = s
           /\ calls' = Append(calls, Call("describe_stacks", "print_outputs", s, r.msg))
           /\ out' = out \o print_outputs(r)
    /\ Exit(0, "")
    /\ UNCHANGED << argv, config, locals, stackOutputs, fullBuckets, workgroup,
                    stagingBucket, stagingArtifact >>

\* cmd_status: print_status(cfn).
cmd_status ==
    /\ pc = "status"
    /\ \E s \in Progress(stackStatus) :
         \E r \in DescribeResponses(s, stackOutputs) :
           /\ stackStatus' = s
           /\ calls' = Append(calls, Call("describe_stacks", "print_status", s, r.msg))
           /\ out' = out \o print_status(r)
    /\ Exit(0, "")
    /\ UNCHANGED << argv, config, locals, stackOutputs, fullBuckets, workgroup,
                    stagingBucket, stagingArtifact >>

\* ---------------------------------------------------------------- deploy
\* cmd_deploy up to staging_bucket = get_staging_bucket().
deploy_get_staging_bucket ==
    /\ pc = "deploy"
    /\ out' = Append(out, Line("Deploying stack: {STACK_NAME}", << STACK_NAME >>))
    /\ \E e \in Answers :
         /\ calls' = Append(calls,
                Call("get_caller_identity", "get_staging_bucket", stackStatus, e))
         /\ IF e = Accepted
            THEN /\ account' \in AccountIds
                 /\ staging' = get_staging_bucket(account')
                 /\ Running("ensure_staging_bucket")
            ELSE /\ UNCHANGED << account, staging >>
                 /\ Exit(1, "ClientError")
    /\ UNCHANGED << argv, s3BucketName, remote, templateUrl, params, exists,
                    deleteLocals, waitLocals >>

\* ensure_staging_bucket(s3, staging_bucket).
ensure_staging_bucket ==
    /\ pc = "ensure_staging_bucket"
    /\ \E h \in HeadBucketResponses(stagingBucket) :
         IF h = Accepted
         THEN /\ calls' = Append(calls, Call("head_bucket", staging, stackStatus, h))
              /\ out' = Append(out, Line("  Staging bucket exists: {bucket}", << staging >>))
              /\ Running("upload_template")
              /\ UNCHANGED stagingBucket
         ELSE /\ out' = Append(out, Line("  Creating staging bucket: {bucket}", << staging >>))
              /\ \E e \in Answers :
                   /\ calls' = calls \o
                        << Call("head_bucket", staging, stackStatus, h),
                           Call("create_bucket", staging, stackStatus, e) >>
                   /\ IF e = Accepted
                      THEN /\ stagingBucket' = TRUE
                           /\ Running("upload_template")
                      ELSE /\ stagingBucket' = stagingBucket
                           /\ Exit(1, "ClientError")
    /\ UNCHANGED << argv, config, locals, stackStatus, stackOutputs,
                    fullBuckets, workgroup, stagingArtifact >>

\* An upload_template that returns the URL without writing the object.
upload_template_url_only ==
    /\ pc = "upload_template"
    /\ templateUrl' = "https://" \o staging \o ".s3.amazonaws.com/"
                         \o STACK_NAME \o "/template.yaml"
    /\ Running("build_params")
    /\ UNCHANGED << argv, config, remote, out, calls, staging, params, exists,
                    deleteLocals, waitLocals >>

\* template_url = upload_template(s3, staging_bucket).
upload_template ==
    /\ pc = "upload_template"
    /\ LET key == STACK_NAME \o "/template.yaml"
       IN  /\ out' = Append(out, Line("  Uploading template to s3://{bucket}/{key}",
                                      << staging, key >>))
           /\ \E e \in Answers :
                /\ calls' = Append(calls, Call("put_object", key, stackStatus, e))
                /\ IF e = Accepted
                   THEN /\ stagingArtifact' = TEMPLATE_FILE
                        /\ templateUrl' = "https://" \o staging \o ".s3.amazonaws.com/" \o key
                        /\ Running("build_params")
                   ELSE /\ UNCHANGED << stagingArtifact, templateUrl >>
                        /\ Exit(1, "ClientError")
    /\ UNCHANGED << argv, config, stackStatus, stackOutputs, fullBuckets,
                    workgroup, stagingBucket, staging, params, exists,
                    deleteLocals, waitLocals >>

\* params = build_params().
deploy_build_params ==
    /\ pc = "build_params"
    /\ IF s3BucketName # ""
       THEN /\ calls' = calls
            /\ params' = build_params(account)
            /\ Running("stack_exists")
       ELSE \E e \in Answers :
              /\ calls' = Append(calls,
                     Call("get_caller_identity", "build_params", stackStatus, e))
              /\ IF e = Accepted
                 THEN /\ params' = build_params(account)
                      /\ Running("stack_exists")
                 ELSE /\ params' = params
                      /\ Exit(1, "ClientError")
    /\ UNCHANGED << argv, config, remote, out, staging, templateUrl, exists,
                    deleteLocals, waitLocals >>

\* exists = stack_exists(cfn), and the branch taken on it.
deploy_stack_exists ==
    /\ pc = "stack_exists"
    /\ \E s \in Progress(stackStatus) :
         \E r \in DescribeResponses(s, stackOutputs) :
           /\ stackStatus' = s
           /\ calls' = Append(calls, Call("describe_stacks", "stack_exists", s, r.msg))
           /\ CASE stack_exists(r) = "True" ->
                     /\ exists' = "True"
                     /\ out' = Append(out, Line("  Stack exists - updating...", << >>))
                     /\ Running("update_stack")
                [] stack_exists(r) = "False" ->
                     /\ exists' = "False"
                     /\ out' = Append(out, Line("  Creating new stack...", << >>))
                     /\ Running("create_stack")
                [] OTHER ->
                     /\ UNCHANGED << exists, out >>
                     /\ Exit(1, "ClientError")
    /\ UNCHANGED << argv, config, stackOutputs, fullBuckets, workgroup,
                    stagingBucket, stagingArtifact, staging, templateUrl,
                    params, deleteLocals, waitLocals >>

\* The exists branch: cfn.update_stack(...), its except clause, and the
\* start of wait_for_stack(cfn, "stack_update_complete").
deploy_update_stack ==
    /\ pc = "update_stack"
    /\ \E s \in Progress(stackStatus) :
         \E e \in UpdateResponses(s) :
           /\ calls' = Append(calls, Call("update_stack", templateUrl, s, e))
           /\ IF e = Accepted
              THEN /\ stackStatus' = "UPDATE_IN_PROGRESS"
                   /\ waiter' = "stack_update_complete"
                   /\ out' = Append(out, Line("  Waiting for stack {waiter_name}...",
                                              << "stack_update_complete" >>))
                   /\ Running("wait")
              ELSE /\ stackStatus' = s
                   /\ UNCHANGED << waiter >>
                   /\ IF NoUpdatesIn(e)
                      THEN /\ out' = Append(out,
                                Line("  No changes detected. Stack is up to date.", << >>))
                           /\ Running("no_changes")
                      ELSE /\ out' = out
                           /\ Exit(1, "ClientError")
    /\ UNCHANGED << argv, config, stackOutputs, fullBuckets, workgroup,
                    stagingBucket, stagingArtifact, deployLocals, deleteLocals,
                    attempts, waitError, success >>

\* print_outputs(cfn); return  of the "No updates are to be performed" case.
deploy_no_changes ==
    /\ pc = "no_changes"
    /\ \E s \in Progress(stackStatus) :
         \E r \in DescribeResponses(s, stackOutputs) :
           /\ stackStatus' = s
           /\ calls' = Append(calls, Call("describe_stacks", "print_outputs", s, r.msg))
           /\ out' = out \o print_outputs(r)
    /\ Exit(0, "")
    /\ UNCHANGED << argv, config, locals, stackOutputs, fullBuckets, workgroup,
                    stagingBucket, stagingArtifact >>

\* The else branch: cfn.create_stack(...) and the start of
\* wait_for_stack(cfn, "stack_create_complete").
deploy_create_stack ==
    /\ pc = "create_stack"
    /\ \E s \in Progress(stackStatus) :
         \E e \in CreateResponses(s) :
           /\ calls' = Append(calls, Call("create_stack", templateUrl, s, e))
           /\ IF e = Accepted
              THEN /\ stackStatus' = "CREATE_IN_PROGRESS"
                   /\ stackOutputs' = OutputKeys
                   /\ waiter' = "stack_create_complete"
                   /\ out' = Append(out, Line("  Waiting for stack {waiter_name}...",
                                              << "stack_create_complete" >>))
                   /\ Running("wait")
              ELSE /\ stackStatus' = s
                   /\ UNCHANGED << stackOutputs, waiter, out >>
                   /\ Exit(1, "ClientError")
    /\ UNCHANGED << argv, config, fullBuckets, workgroup, stagingBucket,
                    stagingArtifact, deployLocals, deleteLocals, attempts,
                    waitError, success >>

\* A wait_for_stack whose failure sends the command back to the mutating
\* call that started the wait.
WaitEnds_reissuing(e) ==
    /\ waitError' = e
    /\ success' = wait_for_stack(e)
    /\ out' = Append(out, IF e = ""
                          THEN Line("  Stack {waiter_name} complete.", << waiter >>)
                          ELSE Line("  Stack operation failed: {e}", << e >>))
    /\ attempts' = 0
    /\ Running(IF e # ""
               THEN (CASE waiter = "stack_update_complete" -> "update_stack"
                       [] waiter = "stack_create_complete" -> "create_stack"
                       [] OTHER -> "delete_stack")
               ELSE IF argv = "deploy" THEN "deploy_report" ELSE "delete_report")

\* waiter.wait ends inside wait_for_stack, raising e ("" when it returns):
\* wait_for_stack prints and returns.
WaitEnds(e) ==
    /\ waitError' = e
    /\ success' = wait_for_stack(e)
    /\ out' = Append(out, IF e = ""
                          THEN Line("  Stack {waiter_name} complete.", << waiter >>)
                          ELSE Line("  Stack operation failed: {e}", << e >>))
    /\ attempts' = 0
    /\ Running(IF argv = "deploy" THEN "deploy_report" ELSE "delete_report")

\* One round of waiter.wait(StackName=STACK_NAME, WaiterConfig={"Delay": 10,
\* "MaxAttempts": 120}): a describe call, the waiter's verdict on it, and
\* the attempt bound.
wait_poll ==
    /\ pc = "wait"
    /\ \E s \in Progress(stackStatus) :
         \E r \in DescribeResponses(s, stackOutputs) :
           LET v == WaiterVerdict(waiter, r)
           IN  /\ stackStatus' = s
               /\ CASE v = "success" -> WaitEnds("")
                    [] v = "failure" -> WaitEnds(TerminalFailure)
                    [] v = "retry" /\ attempts + 1 >= MaxAttempts ->
                         WaitEnds(MaxAttemptsExceeded)
                    [] OTHER ->
                         /\ attempts' = attempts + 1
                         /\ UNCHANGED << waitError, success, out >>
                         /\ Running("wait")
    /\ UNCHANGED << argv, config, calls, stackOutputs, fullBuckets, workgroup,
                    stagingBucket, stagingArtifact, deployLocals, deleteLocals,
                    waiter >>

\* The end of cmd_deploy without its sys.exit(1).
deploy_report_returning ==
    /\ pc = "deploy_report"
    /\ \E s \in Progress(stackStatus) :
         \E r \in DescribeResponses(s, stackOutputs) :
           /\ stackStatus' = s
           /\ IF success
              THEN /\ calls' = Append(calls,
                          Call("describe_stacks", "print_outputs", s, r.msg))
                   /\ out' = Append(out, Line("  Deployment successful!", << >>))
                             \o print_outputs(r)
              ELSE /\ calls' = Append(calls,
                          Call("describe_stacks", "print_status", s, r.msg))
                   /\ out' = Append(out,
                        Line("  Deployment failed. Check the AWS CloudFormation console.", << >>))
                             \o print_status(r)
    /\ Exit(0, "")
    /\ UNCHANGED << argv, config, locals, stackOutputs, fullBuckets, workgroup,
                    stagingBucket, stagingArtifact >>

\* if success: ... else: ... sys.exit(1)  at the end of cmd_deploy.
deploy_report ==
    /\ pc = "deploy_report"
    /\ \E s \in Progress(stackStatus) :
         \E r \in DescribeResponses(s, stackOutputs) :
           /\ stackStatus' = s
           /\ IF success
              THEN /\ calls' = Append(calls,
                          Call("describe_stacks", "print_outputs", s, r.msg))
                   /\ out' = Append(out, Line("  Deployment successful!", << >>))
                             \o print_outputs(r)
                   /\ Exit(0, "")
              ELSE /\ calls' = Append(calls,
                          Call("describe_stacks", "print_status", s, r.msg))
                   /\ out' = Append(out,
                        Line("  Deployment failed. Check the AWS CloudFormation console.", << >>))
                             \o print_status(r)
                   /\ Exit(1, "")
    /\ UNCHANGED << argv, config, locals, stackOutputs, fullBuckets, workgroup,
                    stagingBucket, stagingArtifact >>

\* ---------------------------------------------------------------- delete
\* A cmd_delete without the early return: the prompt follows whatever
\* stack_exists returned.
delete_stack_exists_no_return ==
    /\ pc = "delete"
    /\ \E s \in Progress(stackStatus) :
         \E r \in DescribeResponses(s, stackOutputs) :
           /\ stackStatus' = s
           /\ calls' = Append(calls, Call("describe_stacks", "stack_exists", s, r.msg))
           /\ IF stack_exists(r) \in { "True", "False" }
              THEN /\ out' = out \o
                        << Line("Deleting stack: {STACK_NAME}", << STACK_NAME >>),
                           Line("  WARNING: This will delete all resources in the stack.", << >>) >>
                   /\ Running("confirm")
              ELSE /\ out' = out
                   /\ Exit(1, "ClientError")
    /\ UNCHANGED << argv, config, locals, stackOutputs, fullBuckets, workgroup,
                    stagingBucket, stagingArtifact >>

\* cmd_delete up to the existence check and its early return.
delete_stack_exists ==
    /\ pc = "delete"
    /\ \E s \in Progress(stackStatus) :
         \E r \in DescribeResponses(s, stackOutputs) :
           /\ stackStatus' = s
           /\ calls' = Append(calls, Call("describe_stacks", "stack_exists", s, r.msg))
           /\ CASE stack_exists(r) = "True" ->
                     /\ out' = out \o
                          << Line("Deleting stack: {STACK_NAME}", << STACK_NAME >>),
                             Line("  WARNING: This will delete all resources in the stack.", << >>) >>
                     /\ Running("confirm")
                [] stack_exists(r) = "False" ->
                     /\ out' = Append(out, Line("  Stack '{STACK_NAME}' does not exist.",
                                                << STACK_NAME >>))
                     /\ Exit(0, "")
                [] OTHER ->
                     /\ out' = out
                     /\ Exit(1, "ClientError")
    /\ UNCHANGED << argv, config, locals, stackOutputs, fullBuckets, workgroup,
                    stagingBucket, stagingArtifact >>

\* The confirmation prompt and its early return.
delete_confirm ==
    /\ pc = "confirm"
    /\ \E line \in ConfirmInputs :
         /\ rawInput' = line
         /\ confirm' = confirmation(line)
         /\ IF confirm' # << "y", "e", "s" >>
            THEN /\ out' = Append(out, Line("  Aborted.", << >>))
                 /\ Exit(0, "")
            ELSE /\ out' = out
                 /\ Running("empty_buckets")
    /\ UNCHANGED << argv, config, remote, calls, deployLocals, outputs, waitLocals >>

\* A first block with a try of its own around each bucket: a bucket whose
\* emptying raises (the failAt-th) does not end the loop.
delete_empty_buckets_each_guarded ==
    /\ pc = "empty_buckets"
    /\ \E s \in Progress(stackStatus) :
         \E r \in DescribeResponses(s, stackOutputs) :
           /\ stackStatus' = s
           /\ IF ~r.ok
              THEN /\ outputs' = outputs
                   /\ calls' = Append(calls,
                          Call("describe_stacks", "cmd_delete", s, r.msg))
                   /\ out' = Append(out, Line("  Warning emptying buckets: {e}", r.msg))
                   /\ fullBuckets' = fullBuckets
              ELSE LET buckets == BucketsOf(r.outputs)
                   IN  \E failAt \in 0 .. Len(buckets) :
                         /\ outputs' = [ bound |-> TRUE, keys |-> r.outputs ]
                         /\ calls' = calls
                              \o << Call("describe_stacks", "cmd_delete", s, r.msg) >>
                              \o [ i \in 1 .. Len(buckets) |->
                                     Call("empty_bucket", buckets[i], s,
                                          IF i = failAt THEN MsgDenied ELSE Accepted) ]
                         /\ out' = out
                              \o [ i \in 1 .. Len(buckets) |->
                                     Line("  Emptying bucket: {bucket_name}",
                                          << OutputValue(buckets[i]) >>) ]
                         /\ fullBuckets' =
                              fullBuckets \ { buckets[i] : i \in (1 .. Len(buckets)) \ { failAt } }
    /\ Running("delete_workgroup")
    /\ UNCHANGED << argv, config, stackOutputs, workgroup, stagingBucket,
                    stagingArtifact, deployLocals, rawInput, confirm, waitLocals >>

\* The first try block: read the outputs, empty the buckets they name.
\* failAt = 0: no call raises; failAt = k: emptying the k-th bucket raises,
\* which ends the block.
delete_empty_buckets ==
    /\ pc = "empty_buckets"
    /\ \E s \in Progress(stackStatus) :
         \E r \in DescribeResponses(s, stackOutputs) :
           /\ stackStatus' = s
           /\ IF ~r.ok
              THEN /\ outputs' = outputs
                   /\ calls' = Append(calls,
                          Call("describe_stacks", "cmd_delete", s, r.msg))
                   /\ out' = Append(out, Line("  Warning emptying buckets: {e}", r.msg))
                   /\ fullBuckets' = fullBuckets
              ELSE LET buckets == BucketsOf(r.outputs)
                   IN  \E failAt \in 0 .. Len(buckets) :
                         LET tried == IF failAt = 0 THEN buckets
                                      ELSE SubSeq(buckets, 1, failAt)
                             emptied == IF failAt = 0 THEN buckets
                                        ELSE SubSeq(buckets, 1, failAt - 1)
                         IN  /\ outputs' = [ bound |-> TRUE, keys |-> r.outputs ]
                             /\ calls' = calls
                                  \o << Call("describe_stacks", "cmd_delete", s, r.msg) >>
                                  \o [ i \in 1 .. Len(tried) |->
                                         Call("empty_bucket", tried[i], s,
                                              IF i = failAt THEN MsgDenied ELSE Accepted) ]
                             /\ out' = out
                                  \o [ i \in 1 .. Len(tried) |->
                                         Line("  Emptying bucket: {bucket_name}",
                                              << OutputValue(tried[i]) >>) ]
                                  \o (IF failAt = 0 THEN << >>
                                      ELSE << Line("  Warning emptying buckets: {e}",
                                                   MsgDenied) >>)
                             /\ fullBuckets' =
                                  fullBuckets \ { emptied[i] : i \in 1 .. Len(emptied) }
    /\ Running("delete_workgroup")
    /\ UNCHANGED << argv, config, stackOutputs, workgroup, stagingBucket,
                    stagingArtifact, deployLocals, rawInput, confirm, waitLocals >>

\* The second try block: delete the Athena workgroup the outputs name.
\* With outputs unbound, outputs.get raises and the except clause prints.
delete_workgroup ==
    /\ pc = "delete_workgroup"
    /\ IF ~outputs.bound
       THEN /\ out' = Append(out, Line("  Warning deleting workgroup: {e}",
                                       << "local variable 'outputs' referenced before assignment" >>))
            /\ UNCHANGED << calls, workgroup >>
       ELSE IF "AthenaWorkgroup" \in outputs.keys
            THEN \E e \in Answers :
                   /\ calls' = Append(calls,
                          Call("delete_work_group", "AthenaWorkgroup", stackStatus, e))
                   /\ workgroup' = IF e = Accepted THEN FALSE ELSE workgroup
                   /\ out' = out
                        \o << Line("  Deleting Athena workgroup: {wg}",
                                   << OutputValue("AthenaWorkgroup") >>) >>
                        \o (IF e = Accepted THEN << >>
                            ELSE << Line("  Warning deleting workgroup: {e}", e) >>)
            ELSE UNCHANGED << calls, workgroup, out >>
    /\ Running("delete_stack")
    /\ UNCHANGED << argv, config, locals, stackStatus, stackOutputs,
                    fullBuckets, stagingBucket, stagingArtifact >>

\* cfn.delete_stack(StackName=STACK_NAME) and the start of
\* wait_for_stack(cfn, "stack_delete_complete").
delete_delete_stack ==
    /\ pc = "delete_stack"
    /\ \E s \in Progress(stackStatus) :
         \E e \in DeleteResponses(s) :
           /\ calls' = Append(calls, Call("delete_stack", STACK_NAME, s, e))
           /\ IF e = Accepted
              THEN /\ stackStatus' = AfterDelete(s)
                   /\ waiter' = "stack_delete_complete"
                   /\ out' = Append(out, Line("  Waiting for stack {waiter_name}...",
                                              << "stack_delete_complete" >>))
                   /\ Running("wait")
              ELSE /\ stackStatus' = s
                   /\ UNCHANGED << waiter, out >>
                   /\ Exit(1, "ClientError")
    /\ UNCHANGED << argv, config, stackOutputs, fullBuckets, workgroup,
                    stagingBucket, stagingArtifact, deployLocals, deleteLocals,
                    attempts, waitError, success >>

\* The end of cmd_delete with a sys.exit(1) after a failed wait.
delete_report_exiting ==
    /\ pc = "delete_report"
    /\ out' = Append(out, IF success
                          THEN Line("  Stack deleted successfully.", << >>)
                          ELSE Line("  Delete may have failed. Check console.", << >>))
    /\ Exit(IF success THEN 0 ELSE 1, "")
    /\ UNCHANGED << argv, config, remote, calls, locals >>

\* if success: ... else: ...  at the end of cmd_delete.
delete_report ==
    /\ pc = "delete_report"
    /\ out' = Append(out, IF success
                          THEN Line("  Stack deleted successfully.", << >>)
                          ELSE Line("  Delete may have failed. Check console.", << >>))
    /\ Exit(0, "")
    /\ UNCHANGED << argv, config, remote, calls, locals >>

\* ----------------------------------------------------------- specification
Next ==
    \/ Main
    \/ cmd_outputs
    \/ cmd_status
    \/ deploy_get_staging_bucket
    \/ ensure_staging_bucket
    \/ upload_template
    \/ deploy_build_params
    \/ deploy_stack_exists
    \/ deploy_update_stack
    \/ deploy_no_changes
    \/ deploy_create_stack
    \/ wait_poll
    \/ deploy_report
    \/ delete_stack_exists
    \/ delete_confirm
    \/ delete_empty_buckets
    \/ delete_workgroup
    \/ delete_delete_stack
    \/ delete_report

Spec == Init /\ [][Next]_vars

\* The process is single-threaded and blocking: while a step is possible,
\* it is taken.
FairSpec == Spec /\ WF_vars(Next)

\* ------------------------------------------------------------------ claims
Issued(op) == \E i \in DOMAIN calls : calls[i].op = op

Count(op) == Cardinality({ i \in DOMAIN calls : calls[i].op = op })

LastCall == calls[Len(calls)]

LastLine == out[Len(out)]

Printed(fmt) == \E j \in DOMAIN out : out[j].fmt = fmt

\* The describe_stacks calls made by stack_exists.
ExistenceChecks ==
    { i \in DOMAIN calls :
        calls[i].op = "describe_stacks" /\ calls[i].arg = "stack_exists" }

Yes == << "y", "e", "s" >>

CleanupCalls == { "empty_bucket", "delete_work_group" }

MutatingCalls == { "create_stack", "update_stack", "delete_stack" } \cup CleanupCalls

\* The wait of this invocation has ended in failure.
WaitFailed == waiter # "" /\ ~success /\ pc \in { "deploy_report", "delete_report", "done" }

\* C1 as stated: every run of cmd_deploy that made the existence check has
\* issued, when it ends, exactly one of create_stack and update_stack.
C1_Original ==
    (argv = "deploy" /\ pc = "done" /\ ExistenceChecks # {})
        => Count("create_stack") + Count("update_stack") = 1

\* C1 amended: once stack_exists has returned in cmd_deploy and the branch on
\* its result has run, exactly one of create_stack and update_stack has been
\* issued: create_stack when the describe call found no stack (does not
\* exist, or DELETE_COMPLETE), update_stack when it found one.
C1_CreateXorUpdate ==
    (argv = "deploy" /\ exists # "unset"
        /\ pc \in { "wait", "no_changes", "deploy_report", "done" })
        => /\ Count("create_stack") + Count("update_stack") = 1
           /\ \A i \in ExistenceChecks :
                /\ Issued("create_stack")
                     <=> calls[i].at \in { "ABSENT", "DELETE_COMPLETE" }
                /\ Issued("update_stack")
                     <=> calls[i].at \notin { "ABSENT", "DELETE_COMPLETE" }

C1_Witness ==
    /\ argv = "deploy" /\ pc = "done" /\ exitCode = 0
    /\ Issued("create_stack") /\ ~Issued("update_stack")
    /\ \E i \in ExistenceChecks : calls[i].at = "DELETE_COMPLETE"

\* C2 as stated: cmd_delete issues a mutating call only when the line typed
\* is exactly  yes , and any other line ends in "Aborted" and exit 0.
C2_Original ==
    argv = "delete"
        => /\ (\E i \in DOMAIN calls : calls[i].op \in MutatingCalls)
                => rawInput = Yes
           /\ (rawInput # NoInput /\ rawInput # Yes)
                => (pc = "done" /\ exitCode = 0 /\ LastLine = Line("  Aborted.", << >>))

\* C2 amended: cmd_delete issues a mutating call only when the line typed,
\* with surrounding whitespace stripped and letters lower-cased, is  yes ;
\* such a line is not aborted, and any other line ends in "Aborted" and
\* exit 0 with no mutating call.
C2_ConfirmedOnly ==
    argv = "delete"
        => /\ (\E i \in DOMAIN calls : calls[i].op \in MutatingCalls)
                => (rawInput # NoInput /\ Lower(Strip(rawInput)) = Yes)
           /\ (rawInput # NoInput /\ Lower(Strip(rawInput)) = Yes)
                => (~Printed("  Aborted.") /\ pc # "confirm")
           /\ (rawInput # NoInput /\ Lower(Strip(rawInput)) # Yes)
                => /\ pc = "done" /\ exitCode = 0 /\ uncaught = ""
                   /\ LastLine = Line("  Aborted.", << >>)

C2_Witness ==
    /\ argv = "delete"
    /\ rawInput = << " ", "Y", "E", "s", "\t" >>
    /\ Issued("delete_stack")

\* C3 as stated: in a confirmed cmd_delete, whatever fails in the
\* bucket-emptying step (its describe call included), the workgroup deletion
\* is attempted when the stack has an AthenaWorkgroup output, and
\* delete_stack is called.
C3_Claim ==
    (argv = "delete" /\ pc \in { "wait", "delete_report", "done" }
        /\ Lower(Strip(rawInput)) = Yes
        /\ \E i \in DOMAIN calls :
             /\ calls[i].ans # Accepted
             /\ \/ calls[i].op = "empty_bucket"
                \/ calls[i].op = "describe_stacks" /\ calls[i].arg = "cmd_delete"
             /\ "AthenaWorkgroup" \in OutputsIn(calls[i].at, stackOutputs))
        => Issued("delete_work_group") /\ Issued("delete_stack")

\* C4: when update_stack answers that no updates are to be performed, no
\* wait is started, print_outputs is run (the listing is printed when its
\* describe call returns outputs) and the process ends with exit code 0.
C4_NoOpUpdateSucceeds ==
    (\E i \in DOMAIN calls :
        calls[i].op = "update_stack" /\ calls[i].ans = MsgNoUpdates)
        => /\ pc \in { "no_changes", "done" }
           /\ waiter = "" /\ attempts = 0
           /\ exitCode # 1 /\ uncaught = ""
           /\ pc = "done"
                => /\ exitCode = 0
                   /\ LastCall.op = "describe_stacks"
                   /\ LastCall.arg = "print_outputs"
                   /\ LET shown == IF LastCall.ans = Accepted
                                   THEN OutputsIn(LastCall.at, stackOutputs)
                                   ELSE {}
                      IN  /\ shown # {} => Printed("  Stack Outputs:")
                          /\ \A k \in shown :
                               \E j \in DOMAIN out :
                                 out[j] = Line("  {key:30s} {val}", << k, OutputValue(k) >>)

C4_Witness ==
    /\ pc = "done" /\ exitCode = 0
    /\ \E i \in DOMAIN calls :
         calls[i].op = "update_stack" /\ calls[i].ans = MsgNoUpdates
    /\ Printed("  Stack Outputs:")
    /\ Printed("  >>> Dashboard URL: {val}")

\* The call c raised an error that no except clause of the program catches.
Propagates(c) ==
    /\ c.ans # Accepted
    /\ \/ c.op \in { "get_caller_identity", "create_bucket", "put_object",
                     "create_stack", "delete_stack" }
       \/ c.op = "describe_stacks" /\ c.arg = "stack_exists" /\ c.ans # MsgNotExist
       \/ c.op = "update_stack" /\ c.ans # MsgNoUpdates

\* C5 as stated: the process exits non-zero only after a failed wait of
\* deploy or for an invalid or missing subcommand.
C5_Original ==
    (pc = "done" /\ exitCode # 0)
        => (argv \notin COMMANDS \/ (argv = "deploy" /\ WaitFailed))

\* C5 amended: the process exits non-zero exactly when the subcommand is
\* invalid or missing, when deploy's wait failed, or when a remote error
\* that no except clause catches ended the command: an error of the identity
\* call, of create_bucket, of put_object, of create_stack, of delete_stack,
\* of update_stack other than "No updates are to be performed", or of the
\* describe call of stack_exists other than "does not exist".  Every other
\* error (describe in print_outputs and print_status, the cleanup steps of
\* delete, a failed wait of delete) ends in exit code 0.
C5_NonZeroExits ==
    pc = "done"
        => /\ exitCode \in { 0, 1 }
           /\ exitCode = 1
                <=> \/ argv \notin COMMANDS
                    \/ argv = "deploy" /\ WaitFailed
                    \/ calls # << >> /\ Propagates(LastCall)
           /\ uncaught # "" <=> (calls # << >> /\ Propagates(LastCall))

C5_Witness ==
    /\ pc = "done" /\ exitCode = 0 /\ argv = "delete" /\ WaitFailed
    /\ \E i \in DOMAIN calls :
         calls[i].op \in CleanupCalls /\ calls[i].ans # Accepted

\* C6: wait_for_stack always ends: the waiter makes at most MaxAttempts
\* describe calls, the round that reaches MaxAttempts ends the wait, a wait
\* ended by the attempt bound returns False, and every wait that starts ends.
C6_WaitTerminates ==
    /\ [](attempts < MaxAttempts)
    /\ [](waitError = MaxAttemptsExceeded => ~success)
    /\ [][(pc = "wait" /\ attempts = MaxAttempts - 1) => pc' # "wait"]_vars
    /\ [](pc = "wait" => <>(pc # "wait"))

C6_Witness ==
    /\ pc = "deploy_report"
    /\ waitError = MaxAttemptsExceeded
    /\ stackStatus = "CREATE_IN_PROGRESS"

\* C7 as stated: whenever a wait ends in failure, in deploy or in delete, the
\* process exits non-zero.
C7_Original ==
    (pc = "done" /\ WaitFailed) => exitCode # 0

\* C7 amended: whenever a wait ends in failure (a terminal failure status or
\* the attempt bound), the failure is printed; deploy then exits with code
\* 1, while delete prints "Delete may have failed" and exits with code 0.
C7_FailureReported ==
    (pc = "done" /\ WaitFailed)
        => /\ waitError \in { TerminalFailure, MaxAttemptsExceeded }
           /\ \E j \in DOMAIN out :
                out[j] = Line("  Stack operation failed: {e}", << waitError >>)
           /\ argv = "deploy"
                => /\ exitCode = 1
                   /\ Printed("  Deployment failed. Check the AWS CloudFormation console.")
           /\ argv = "delete"
                => /\ exitCode = 0
                   /\ LastLine = Line("  Delete may have failed. Check console.", << >>)

C7_Witness ==
    /\ pc = "done" /\ WaitFailed /\ argv = "deploy"
    /\ waitError = MaxAttemptsExceeded /\ exitCode = 1

\* C8 as stated: in outputs and in status, a describe answer of "does not
\* exist" is printed as a not-found line of its own, not as the line any
\* other query error is printed with, and the process does not crash.
C8_Claim ==
    (pc = "done" /\ argv \in { "outputs", "status" } /\ LastCall.ans = MsgNotExist)
        => /\ uncaught = "" /\ exitCode = 0
           /\ LastLine.fmt # "  Error: {e}"

\* C9 as stated: no mutating call of deploy or delete reaches a stack whose
\* status is an operation in progress.
C9_Claim ==
    \A i \in DOMAIN calls :
        calls[i].op \in MutatingCalls => calls[i].at \notin InProgress

\* C10: build_params returns the static PARAMETERS entries unchanged, then
\* one S3BucketName entry whose value is the override when S3_BUCKET_NAME is
\* non-empty and "<stack name>-<account id>" otherwise.
C10_BuildParams ==
    params # << >>
        => /\ Len(params) = Len(PARAMETER_KEYS) + 1
           /\ \A i \in 1 .. Len(PARAMETER_KEYS) :
                /\ params[i].ParameterKey = PARAMETER_KEYS[i]
                /\ params[i].ParameterValue = PARAMETERS[PARAMETER_KEYS[i]]
                /\ params[i].ParameterKey # "S3BucketName"
           /\ params[1] = [ ParameterKey |-> "DynamoTableName",
                            ParameterValue |-> "ConnectViewDataTest" ]
           /\ params[Len(params)].ParameterKey = "S3BucketName"
           /\ s3BucketName # ""
                => params[Len(params)].ParameterValue = s3BucketName
           /\ (s3BucketName = "" /\ account = "123456789012")
                => params[Len(params)].ParameterValue = "gsi-export-test-123456789012"
           /\ (s3BucketName = "" /\ account = "210987654321")
                => params[Len(params)].ParameterValue = "gsi-export-test-210987654321"

C10_Witness ==
    /\ Issued("create_stack")
    /\ s3BucketName = "" /\ account = "123456789012"
    /\ params[Len(params)].ParameterValue = "gsi-export-test-123456789012"

StackCalls == { "create_stack", "update_stack", "delete_stack" }

\* A step taken during or after a wait issues no create, update or delete.
AfterWaitNoStackCall ==
    (pc \in { "wait", "deploy_report", "delete_report" })
        => (\A op \in StackCalls :
              Cardinality({ i \in DOMAIN calls' : calls'[i].op = op }) = Count(op))

\* A round of the waiter that does not end the wait is one more attempt.
PollRepeats ==
    (pc = "wait" /\ pc' = "wait") => (attempts' = attempts + 1 /\ calls' = calls)

\* C11: no mutating call is retried: in one invocation create_stack,
\* update_stack and delete_stack are each issued at most once, also after a
\* wait that failed or ran into the attempt bound, and no step that follows
\* the end of a wait issues one; the waiter's describe call is what repeats.
C11_NoRetry ==
    /\ [](\A op \in StackCalls : Count(op) <= 1)
    /\ [][AfterWaitNoStackCall]_vars
    /\ [][PollRepeats]_vars

C11_Witness ==
    /\ pc = "done" /\ argv = "delete" /\ WaitFailed
    /\ waitError = MaxAttemptsExceeded
    /\ Count("delete_stack") = 1

\* The describe_stacks calls made by the bucket-emptying block of cmd_delete.
CleanupReads ==
    { i \in DOMAIN calls :
        calls[i].op = "describe_stacks" /\ calls[i].arg = "cmd_delete" }

\* C12 as stated: in a confirmed cmd_delete on an existing stack,
\* delete_stack is issued exactly once, after the emptying of every bucket
\* the stack's outputs name under ExportDataBucket and AthenaResultsBucket
\* and the deletion of its workgroup have each been attempted, and no
\* cleanup call follows it.
C12_Claim ==
    (argv = "delete" /\ confirm = Yes /\ pc \in { "wait", "delete_report", "done" })
        => /\ Count("delete_stack") = 1
           /\ \A d \in DOMAIN calls :
                calls[d].op = "delete_stack"
                    => /\ \A i \in d + 1 .. Len(calls) : calls[i].op \notin CleanupCalls
                       /\ \A r \in CleanupReads :
                            LET named == OutputsIn(calls[r].at, stackOutputs)
                            IN  /\ \A k \in named \cap { "ExportDataBucket",
                                                          "AthenaResultsBucket" } :
                                     \E i \in 1 .. d - 1 :
                                       calls[i].op = "empty_bucket" /\ calls[i].arg = k
                                /\ "AthenaWorkgroup" \in named
                                     => \E i \in 1 .. d - 1 :
                                          calls[i].op = "delete_work_group"

\* A step that issues create_bucket.
CreatesBucket == Len(calls') > Len(calls) /\ calls'[Len(calls')].op = "create_bucket"

\* C14 as stated: ensure_staging_bucket calls create_bucket only when the
\* staging bucket does not exist, never when it exists; so a run that follows
\* a successful one (the bucket exists from the start) calls no create_bucket.
C14_Claim == [][CreatesBucket => ~stagingBucket]_vars

\* The calls of operation op that were accepted.
AcceptedCalls(op) ==
    { i \in DOMAIN calls : calls[i].op = op /\ calls[i].ans = Accepted }

\* C13: the remote effects of cmd_deploy come in one order.  The template is
\* uploaded once, after the staging bucket was found or created; the upload
\* overwrites the staging artifact (also when the update then has nothing to
\* do); the existence check follows the completed upload; and create_stack
\* or update_stack follows the existence check and carries the URL the
\* upload returned.
C13_DeployOrder ==
    argv = "deploy"
        => /\ Count("put_object") <= 1
           /\ \A u \in DOMAIN calls :
                calls[u].op = "put_object"
                    => \E h \in 1 .. u - 1 :
                         /\ calls[h].op = "head_bucket"
                         /\ \/ calls[h].ans = Accepted
                            \/ \E b \in AcceptedCalls("create_bucket") : h < b /\ b < u
                         /\ stagingBucket
           /\ AcceptedCalls("put_object") # {}
                => /\ stagingArtifact = TEMPLATE_FILE
                   /\ templateUrl = "https://cfn-templates-" \o account
                          \o ".s3.amazonaws.com/gsi-export-test/template.yaml"
           /\ \A x \in ExistenceChecks :
                \E u \in AcceptedCalls("put_object") : u < x
           /\ \A i \in DOMAIN calls :
                calls[i].op \in { "create_stack", "update_stack" }
                    => /\ \E x \in ExistenceChecks :
                            /\ x < i
                            /\ \E u \in AcceptedCalls("put_object") : u < x
                       /\ calls[i].arg = templateUrl
                       /\ templateUrl # ""

C13_Witness ==
    /\ argv = "deploy" /\ pc = "done"
    /\ AcceptedCalls("create_bucket") # {}
    /\ stagingArtifact = TEMPLATE_FILE
    /\ \E i \in DOMAIN calls :
         calls[i].op = "update_stack" /\ calls[i].ans = MsgNoUpdates

\* A step of the outputs or the status command leaves the stack's outputs,
\* its buckets, its workgroup, the staging bucket and the staging artifact as
\* they are, and a stack that is in no operation keeps its status.
ReadOnlyStep ==
    pc \in { "outputs", "status" }
        => /\ UNCHANGED << stackOutputs, fullBuckets, workgroup, stagingBucket,
                           stagingArtifact >>
           /\ stackStatus \notin InProgress => stackStatus' = stackStatus

\* C15: outputs and status are pure reads: whatever describe_stacks answers,
\* the one remote call they issue is describe_stacks, and the stack, its
\* buckets and the staging artifact are left unchanged.
C15_PureReads ==
    /\ [](argv \in { "outputs", "status" }
            => /\ \A i \in DOMAIN calls : calls[i].op = "describe_stacks"
               /\ Len(calls) <= 1
               /\ pc = "done" => (Len(calls) = 1 /\ exitCode = 0 /\ uncaught = ""))
    /\ [][ReadOnlyStep]_vars

C15_Witness ==
    /\ argv = "outputs" /\ pc = "done"
    /\ LastCall.ans = MsgDenied
    /\ stackStatus = "UPDATE_COMPLETE"
    /\ fullBuckets # {}

\* C16: when stack_exists returns False in cmd_delete (describe_stacks says
\* the stack does not exist, or shows it in DELETE_COMPLETE), the command
\* ends at once: it prints that the stack does not exist, reads no
\* confirmation, issues no further call, and exits with code 0.
C16_AbsentEndsDelete ==
    (argv = "delete"
        /\ \E x \in ExistenceChecks :
             \/ calls[x].ans = MsgNotExist
             \/ calls[x].ans = Accepted /\ calls[x].at = "DELETE_COMPLETE")
        => /\ pc = "done" /\ exitCode = 0 /\ uncaught = ""
           /\ Len(calls) = 1
           /\ rawInput = NoInput /\ confirm = << >>
           /\ ~Printed("Deleting stack: {STACK_NAME}")
           /\ LastLine = Line("  Stack '{STACK_NAME}' does not exist.", << STACK_NAME >>)

C16_Witness ==
    /\ argv = "delete" /\ pc = "done"
    /\ calls # << >>
    /\ LastCall.at = "DELETE_COMPLETE" /\ LastCall.ans = Accepted
    /\ stackStatus = "DELETE_COMPLETE"

\* Emptying the bucket of output key k was tried and raised.
EmptyingFailed(k) ==
    \E i \in DOMAIN calls :
        calls[i].op = "empty_bucket" /\ calls[i].arg = k /\ calls[i].ans # Accepted

\* C17: the two buckets are emptied in one try block: when emptying the
\* ExportDataBucket bucket raises, the AthenaResultsBucket bucket is not
\* visited in that invocation and keeps its objects, one warning is printed,
\* and delete_stack is issued all the same.
C17_SharedFailureScope ==
    (argv = "delete" /\ EmptyingFailed("ExportDataBucket"))
        => /\ \A i \in DOMAIN calls :
                ~(calls[i].op = "empty_bucket" /\ calls[i].arg = "AthenaResultsBucket")
           /\ Count("empty_bucket") = 1
           /\ fullBuckets = stackOutputs \cap { "ExportDataBucket", "AthenaResultsBucket" }
           /\ Printed("  Warning emptying buckets: {e}")
           /\ pc \in { "delete_workgroup", "delete_stack", "wait", "delete_report", "done" }
           /\ pc \in { "wait", "delete_report", "done" } => Count("delete_stack") = 1

C17_Witness ==
    /\ argv = "delete" /\ pc = "done" /\ exitCode = 0
    /\ EmptyingFailed("ExportDataBucket")
    /\ "AthenaResultsBucket" \in fullBuckets
    /\ AcceptedCalls("delete_stack") # {}
====
